---- MODULE Spec2Model ----
(***************************************************************************)
(* Model of wasmedge-ggml-llama-interactive/src/main.rs: the session loop  *)
(* that keeps a growing transcript (saved_prompt), submits it to the       *)
(* wasi-nn backend and collects the answer either with compute() or token  *)
(* by token with compute_single().                                         *)
(*                                                                         *)
(* Text is a sequence of units.  A unit is a white-space character, an     *)
(* ordinary character, or a run of text that is never split (a literal of  *)
(* the program such as "[INST]").  Trimming, concatenation and formatting  *)
(* work on these sequences as the Rust code works on its strings.          *)
(*                                                                         *)
(* The backend, standard input and the environment are outside the         *)
(* program: every value they can hand back (a result, an error, a line)   *)
(* is chosen with \E in the action that makes the call.                    *)
(***************************************************************************)
EXTENDS Integers, Sequences, FiniteSets

VARIABLES
    args,               \* env::args(): <<program, model>> or <<program, model, prompt>>
    options,            \* get_options_from_env(): the JSON object, key |-> JSON text
    is_compute_single,  \* main.rs:119-123
    pc,                 \* position of main()
    saved_prompt,       \* main.rs:154, the transcript
    answer,             \* main.rs:8, the line read_line delivered last
    input,              \* main.rs:158
    output,             \* main.rs:176
    token,              \* main.rs:199
    input_tensor,       \* slot 0 of the execution context, as last set by set_input
    trace,              \* backend calls and writes to stdout since the last "Question:"
    turn,               \* number of completed passes of the loop of main.rs:156
    user_texts,         \* the trimmed inputs that main.rs:160/162 put into the transcript
    model_texts,        \* the trimmed outputs that main.rs:219 put into the transcript
    panic               \* the unwrap()/expect() that ended the process, "" while none has

vars == <<args, options, is_compute_single, pc, saved_prompt, answer, input, output, token,
          input_tensor, trace, turn, user_texts, model_texts, panic>>

-----------------------------------------------------------------------------
(* Bounds of the model *)

MaxTurns == 2

MaxSteps == 2

-----------------------------------------------------------------------------
(* Text *)

Min(a, b) == IF a <= b THEN a ELSE b

\* main.rs:89
MAX_OUTPUT_BUFFER_SIZE == 4096 * 6

\* n copies of a text, one after the other
RECURSIVE Repeat(_, _)
Repeat(s, n) ==
    IF n = 0 THEN ""
    ELSE IF n % 2 = 1 THEN s \o Repeat(s, n - 1)
    ELSE LET half == Repeat(s, n \div 2) IN half \o half

\* A run of spaces that with one more byte fills the buffer of main.rs:90,
\* as one unit of text
WhitespaceRun == Repeat(" ", MAX_OUTPUT_BUFFER_SIZE - 1)

IsWhitespace(c) == c \in {" ", "\n", "\r", "\t", WhitespaceRun}

RECURSIVE TrimStart(_)
TrimStart(s) ==
    IF s = <<>> THEN s
    ELSE IF IsWhitespace(Head(s)) THEN TrimStart(Tail(s)) ELSE s

RECURSIVE TrimEnd(_)
TrimEnd(s) ==
    IF s = <<>> THEN s
    ELSE IF IsWhitespace(s[Len(s)]) THEN TrimEnd(SubSeq(s, 1, Len(s) - 1)) ELSE s

\* str::trim(), as called at main.rs:149, 160, 162, 214, 219
Trim(s) == TrimEnd(TrimStart(s))

\* main.rs:153
system_prompt ==
    <<"<<SYS>>You are a helpful, respectful and honest assistant. Always answer as short as possible, while being safe. <</SYS>>">>

\* The byte that is no valid UTF-8 and the character from_utf8_lossy puts for it
InvalidByte == "\\xFF"
ReplacementChar == "\\u{FFFD}"

\* The bytes of a unit of text: one for the invalid byte, three for U+FFFD in
\* UTF-8, and for any other unit those of its characters
len(u) == IF u = InvalidByte THEN 1 ELSE IF u = ReplacementChar THEN 3 ELSE Len(u)

\* The bytes of a text
RECURSIVE Size(_)
Size(bytes) == IF bytes = <<>> THEN 0 ELSE len(Head(bytes)) + Size(Tail(bytes))

\* &bytes[..n], main.rs:100: a cut inside U+FFFD leaves bytes that are no valid
\* UTF-8, a cut inside another unit the characters before it
RECURSIVE Take(_, _)
Take(bytes, n) ==
    IF bytes = <<>> \/ n = 0 THEN <<>>
    ELSE IF len(Head(bytes)) <= n
         THEN <<Head(bytes)>> \o Take(Tail(bytes), n - len(Head(bytes)))
         ELSE IF Head(bytes) = ReplacementChar THEN <<InvalidByte>>
              ELSE <<SubSeq(Head(bytes), 1, n)>>

\* String::from_utf8_lossy, main.rs:100
from_utf8_lossy(bytes) ==
    [i \in DOMAIN bytes |-> IF bytes[i] = InvalidByte THEN ReplacementChar ELSE bytes[i]]

\* A faulty read that decodes all the backend has written
get_data_from_context_Uncapped(written) == from_utf8_lossy(written)

\* main.rs:83-101, for the bytes `written` the backend has for the slot: the
\* backend fills the buffer and reports a size, the size is capped, the bytes
\* up to it are decoded
get_data_from_context(written) ==
    LET output_size == Min(MAX_OUTPUT_BUFFER_SIZE, Size(written))
    IN  from_utf8_lossy(Take(written, output_size))

-----------------------------------------------------------------------------
(* What the environment can hand to the program *)

ProgramName == <<"wasmedge-ggml-llama-interactive.wasm">>
ModelName == <<"default">>

\* argv[2] when it is given
Prompts == { <<" ", "Once upon a time,", " ">> }

Args == { <<ProgramName, ModelName>> } \cup { <<ProgramName, ModelName, p>> : p \in Prompts }

\* The JSON values an option can have: "null" is a key that was not set
EnableLogValues == {"null", "true"}
StreamStdoutValues == {"null", "true", "false"}

Options ==
    { [k \in {"enable-log", "stream-stdout"} |->
          IF k = "enable-log" THEN e ELSE s] : e \in EnableLogValues, s \in StreamStdoutValues }

\* A faulty reading of an option that takes what is no boolean for false
as_bool_Lenient(v) == IF v = "true" THEN "true" ELSE "false"

\* serde_json Value::as_bool(): Some(b) for a JSON boolean, None for anything else
as_bool(v) == IF v \in {"true", "false"} THEN v ELSE "None"

\* The lines read_line can deliver; <<>> is end of input (Ok(0), nothing read)
Lines ==
    { <<>>, <<"\n">>, <<"\r", "\n">>, <<" ", "\n">>, <<" ", "q", " ", "\n">> }

\* The texts get_output_single can deliver for one token
Tokens == { <<"lo">>, <<" ">> }

\* An answer of one byte more than the buffer of main.rs:90 holds: a byte that
\* is no valid UTF-8, white space up to the end of the buffer, and "y"
LongAnswer == <<InvalidByte, WhitespaceRun, "y">>

\* The texts get_output can deliver for a whole answer
Answers == { <<" ", " ", "answer", " ", " ">>, <<"ok", InvalidByte>>, LongAnswer }

\* The errors compute() and compute_single() can return
RunErrors == {"EndOfSequence", "ContextFull", "PromptTooLong", "RuntimeError"}

\* The texts slot 1 can deliver
MetadataJson == <<"{\"input_tokens\":3,\"output_tokens\":2}">>
MetadataTexts == { MetadataJson, <<>> }

\* serde_json::from_str at main.rs:108
from_str(text) ==
    IF text = MetadataJson
    THEN [ok |-> TRUE, input_tokens |-> <<"3">>, output_tokens |-> <<"2">>]
    ELSE [ok |-> FALSE, input_tokens |-> <<>>, output_tokens |-> <<>>]

-----------------------------------------------------------------------------
(* The record of what the program did to the outside *)

Call(op, idx, arg, res) == [op |-> op, idx |-> idx, arg |-> arg, res |-> res]

\* print!/println! of a text
Stdout(text) == Call("print", 0, text, "")

\* The texts written to stdout, in order, as one text
RECURSIVE Printed(_)
Printed(t) ==
    IF t = <<>> THEN <<>>
    ELSE (IF Head(t).op = "print" THEN Head(t).arg ELSE <<>>) \o Printed(Tail(t))

-----------------------------------------------------------------------------
(* The transcript, main.rs:159-163 and main.rs:219 *)

\* A faulty append_turn that puts the system prompt into every user block
append_turn_AlwaysSystem(transcript, user_text) ==
    (IF transcript = <<>> THEN <<>> ELSE transcript \o <<" ">>)
        \o <<"[INST]", " ">> \o system_prompt \o <<" ">> \o Trim(user_text) \o <<" ", "[/INST]">>

\* main.rs:159-163
append_turn(transcript, user_text) ==
    IF transcript = <<>>
    THEN <<"[INST]", " ">> \o system_prompt \o <<" ">> \o Trim(user_text) \o <<" ", "[/INST]">>
    ELSE transcript \o <<" ", "[INST]", " ">> \o Trim(user_text) \o <<" ", "[/INST]">>

\* A faulty append_output that keeps only the last answer
append_output_Replace(transcript, model_text) ==
    <<" ">> \o Trim(model_text) \o <<" ">>

\* A faulty append_output that does not trim the answer
append_output_Untrimmed(transcript, model_text) ==
    transcript \o <<" ">> \o model_text \o <<" ">>

\* main.rs:219
append_output(transcript, model_text) ==
    transcript \o <<" ">> \o Trim(model_text) \o <<" ">>

-----------------------------------------------------------------------------
(* The program *)

Init ==
    /\ args \in Args
    /\ options \in Options
    /\ is_compute_single \in BOOLEAN
    /\ pc = "main"
    /\ saved_prompt = <<>>
    /\ answer = <<>>
    /\ input = <<>>
    /\ output = <<>>
    /\ token = <<>>
    /\ input_tensor = <<>>
    /\ trace = <<>>
    /\ turn = 0
    /\ user_texts = <<>>
    /\ model_texts = <<>>
    /\ panic = ""

\* An unwrap() or expect() on an Err or a None: the process ends there
Abort(where) ==
    /\ pc' = "aborted"
    /\ panic' = where

\* A faulty main that asks for the mode before it asks for the prompt argument
Main_ModeFirst ==
    /\ pc = "main"
    /\ pc' = IF Len(args) >= 3 /\ ~is_compute_single THEN "prompt_set_input" ELSE "loop"
    /\ UNCHANGED <<args, options, is_compute_single, saved_prompt, answer, input, output,
                   token, input_tensor, trace, turn, user_texts, model_texts, panic>>

\* main.rs:139: a third argument selects the non-interactive branch
Main ==
    /\ pc = "main"
    /\ pc' = IF Len(args) >= 3 THEN "prompt_set_input" ELSE "loop"
    /\ UNCHANGED <<args, options, is_compute_single, saved_prompt, answer, input, output,
                   token, input_tensor, trace, turn, panic, user_texts, model_texts>>

\* main.rs:140-145
PromptSetInput ==
    /\ pc = "prompt_set_input"
    /\ LET prompt == args[3]
           shown == Stdout(<<"Prompt:", "\n">> \o prompt \o <<"\n">>)
       IN  \E res \in {"Ok", "Err"} :
             /\ trace' = trace \o <<shown, Call("set_input", 0, prompt, res)>>
             /\ IF res = "Ok"
                THEN /\ input_tensor' = prompt
                     /\ pc' = "prompt_compute"
                     /\ UNCHANGED panic
                ELSE /\ Abort("set_input")
                     /\ UNCHANGED input_tensor
    /\ UNCHANGED <<args, options, is_compute_single, saved_prompt, answer, input, output,
                   token, turn, user_texts, model_texts>>

\* main.rs:146-147
PromptCompute ==
    /\ pc = "prompt_compute"
    /\ \E res \in {"Ok"} \cup RunErrors :
         /\ trace' = trace \o <<Stdout(<<"Response:", "\n">>), Call("compute", 0, <<>>, res)>>
         /\ IF res = "Ok"
            THEN pc' = "prompt_get_output" /\ UNCHANGED panic
            ELSE Abort("compute")
    /\ UNCHANGED <<args, options, is_compute_single, saved_prompt, answer, input, output,
                   token, input_tensor, turn, user_texts, model_texts>>

\* main.rs:148-150
PromptGetOutput ==
    /\ pc = "prompt_get_output"
    /\ \/ \E written \in Answers :
            LET text == get_data_from_context(written)
            IN  /\ output' = text
                /\ trace' = trace \o <<Call("get_output", 0, written, "Ok"),
                                       Stdout(Trim(text) \o <<"\n">>),
                                       Call("exit", 0, <<>>, "0")>>
                /\ pc' = "exited"
                /\ UNCHANGED panic
       \/ /\ trace' = Append(trace, Call("get_output", 0, <<>>, "Err"))
          /\ Abort("get_output")
          /\ UNCHANGED output
    /\ UNCHANGED <<args, options, is_compute_single, saved_prompt, answer, input, token,
                   input_tensor, turn, user_texts, model_texts>>

\* main.rs:157: the head of the loop.  The trace starts anew with each question.
Loop ==
    /\ pc = "loop"
    /\ turn < MaxTurns
    /\ trace' = <<Stdout(<<"Question:", "\n">>)>>
    /\ pc' = "read_input"
    /\ UNCHANGED <<args, options, is_compute_single, saved_prompt, answer, input, output,
                   token, input_tensor, turn, panic, user_texts, model_texts>>

\* main.rs:12
IsAnswer(line) == line # <<>> /\ line # <<"\n">> /\ line # <<"\r", "\n">>

\* main.rs:6-16 and 158: one read_line; a line that is no answer is read again
ReadInput ==
    /\ pc = "read_input"
    /\ \/ \E line \in Lines :
            /\ answer' = line
            /\ IF IsAnswer(line)
               THEN input' = line /\ pc' = "append_turn"
               ELSE UNCHANGED <<input, pc>>
            /\ UNCHANGED panic
       \/ /\ Abort("Failed to read line")
          /\ UNCHANGED <<answer, input>>
    /\ UNCHANGED <<args, options, is_compute_single, saved_prompt, output, token,
                   input_tensor, trace, turn, user_texts, model_texts>>

\* main.rs:159-163
AppendTurn ==
    /\ pc = "append_turn"
    /\ saved_prompt' = append_turn(saved_prompt, input)
    /\ user_texts' = Append(user_texts, Trim(input))
    /\ pc' = "set_data"
    /\ UNCHANGED <<args, options, is_compute_single, answer, input, output, token,
                   input_tensor, trace, turn, panic, model_texts>>

\* main.rs:166 and 68-73
SetData ==
    /\ pc = "set_data"
    /\ \E res \in {"Ok", "Err"} :
         /\ trace' = Append(trace, Call("set_input", 0, saved_prompt, res))
         /\ IF res = "Ok"
            THEN /\ input_tensor' = saved_prompt
                 /\ pc' = "input_metadata"
                 /\ UNCHANGED panic
            ELSE /\ Abort("set_input")
                 /\ UNCHANGED input_tensor
    /\ UNCHANGED <<args, options, is_compute_single, saved_prompt, answer, input, output,
                   token, turn, user_texts, model_texts>>

\* What a read of slot 1 can give: an error, or a text
MetadataOutcomes ==
    { [res |-> "Err", text |-> <<>>] } \cup { [res |-> "Ok", text |-> t] : t \in MetadataTexts }

\* A faulty read of the metadata that takes a failure for metadata without
\* numbers
get_metadata_from_context_Lenient(o) ==
    LET v == from_str(get_data_from_context(o.text))
    IN  [ok |-> TRUE, panic |-> "", input_tokens |-> v.input_tokens,
         output_tokens |-> v.output_tokens]

\* main.rs:107-109, for the outcome o of get_output(1): the unwrap() of
\* main.rs:96 fails on an error, the unwrap() of main.rs:108 on a text that is
\* no JSON
get_metadata_from_context(o) ==
    IF o.res = "Err"
    THEN [ok |-> FALSE, panic |-> "get_output", input_tokens |-> <<>>, output_tokens |-> <<>>]
    ELSE LET v == from_str(get_data_from_context(o.text))
         IN  [ok |-> v.ok, panic |-> IF v.ok THEN "" ELSE "from_str",
              input_tokens |-> v.input_tokens, output_tokens |-> v.output_tokens]

\* main.rs:170 and 223: `if let Some(true) = options["enable-log"].as_bool()`
LogEnabled == as_bool(options["enable-log"]) = "true"

\* A faulty turn that goes on to the answer without reading the metadata
InputMetadata_Skipped ==
    /\ pc = "input_metadata"
    /\ trace' = Append(trace, Stdout(<<"Answer:", "\n">>))
    /\ output' = <<>>
    /\ pc' = IF is_compute_single THEN "compute_single" ELSE "compute"
    /\ UNCHANGED <<args, options, is_compute_single, saved_prompt, answer, input, token,
                   input_tensor, turn, user_texts, model_texts, panic>>

\* main.rs:169-176
InputMetadata ==
    /\ pc = "input_metadata"
    /\ \E o \in MetadataOutcomes :
         LET input_metadata == get_metadata_from_context(o)
             read == Call("get_output", 1, o.text, o.res)
             log == IF LogEnabled
                    THEN <<Stdout(<<"Number of input tokens: ">> \o input_metadata.input_tokens
                                  \o <<"\n">>)>>
                    ELSE <<>>
         IN  IF input_metadata.ok
             THEN /\ trace' = trace \o <<read>> \o log \o <<Stdout(<<"Answer:", "\n">>)>>
                  /\ output' = <<>>
                  /\ pc' = IF is_compute_single THEN "compute_single" ELSE "compute"
                  /\ UNCHANGED panic
             ELSE /\ trace' = Append(trace, read)
                  /\ Abort(input_metadata.panic)
                  /\ UNCHANGED output
    /\ UNCHANGED <<args, options, is_compute_single, saved_prompt, answer, input, token,
                   input_tensor, turn, user_texts, model_texts>>

\* The number of tokens compute_single has produced since the last question
Steps(t) == Cardinality({i \in DOMAIN t : t[i].op = "compute_single" /\ t[i].res = "Ok"})

\* Faulty arms that report nothing when the context is full
StopMessage_Silent(res) ==
    CASE res = "EndOfSequence" -> <<>>
      [] res = "ContextFull" -> <<>>
      [] res = "PromptTooLong" -> <<Stdout(<<"[INFO] Prompt too long", "\n">>)>>
      [] OTHER -> <<Stdout(<<"[ERROR] ", res, "\n">>)>>

\* The calls of compute_single() since the last question that returned an error
FailedRunsOf(t) == {i \in DOMAIN t : t[i].op = "compute_single" /\ t[i].res # "Ok"}

\* What the arms of main.rs:181-196 print before they leave the loop
StopMessage(res) ==
    CASE res = "EndOfSequence" -> <<>>
      [] res = "ContextFull" -> <<Stdout(<<"[INFO] Context full", "\n">>)>>
      [] res = "PromptTooLong" -> <<Stdout(<<"[INFO] Prompt too long", "\n">>)>>
      [] OTHER -> <<Stdout(<<"[ERROR] ", res, "\n">>)>>

\* A faulty loop that handles EndOfSequence only and unwraps every other result
ComputeSingle_Unwrap ==
    /\ pc = "compute_single"
    /\ \E res \in {"Ok"} \cup RunErrors :
         /\ res = "Ok" => Steps(trace) < MaxSteps
         /\ trace' = Append(trace, Call("compute_single", 0, <<>>, res))
         /\ IF res \in {"Ok", "EndOfSequence"}
            THEN /\ pc' = IF res = "Ok" THEN "get_token" ELSE "end_answer"
                 /\ UNCHANGED panic
            ELSE Abort("compute_single")
    /\ UNCHANGED <<args, options, is_compute_single, saved_prompt, answer, input, output,
                   token, input_tensor, turn, user_texts, model_texts>>

\* A faulty loop that calls compute_single() again after ContextFull
ComputeSingle_Retry ==
    /\ pc = "compute_single"
    /\ \E res \in {"Ok"} \cup RunErrors :
         /\ res \in {"Ok", "ContextFull"} => Steps(trace) + Cardinality(FailedRunsOf(trace)) < MaxSteps
         /\ trace' = trace \o <<Call("compute_single", 0, <<>>, res)>>
                           \o (IF res = "Ok" THEN <<>> ELSE StopMessage(res))
         /\ pc' = CASE res = "Ok" -> "get_token"
                    [] res = "ContextFull" -> "compute_single"
                    [] OTHER -> "end_answer"
    /\ UNCHANGED <<args, options, is_compute_single, saved_prompt, answer, input, output,
                   token, input_tensor, turn, panic, user_texts, model_texts>>

\* main.rs:180-197: one compute_single() and the match on its result
ComputeSingle ==
    /\ pc = "compute_single"
    /\ \E res \in {"Ok"} \cup RunErrors :
         /\ res = "Ok" => Steps(trace) < MaxSteps
         /\ trace' = trace \o <<Call("compute_single", 0, <<>>, res)>>
                           \o (IF res = "Ok" THEN <<>> ELSE StopMessage(res))
         /\ pc' = IF res = "Ok" THEN "get_token" ELSE "end_answer"
    /\ UNCHANGED <<args, options, is_compute_single, saved_prompt, answer, input, output,
                   token, input_tensor, turn, panic, user_texts, model_texts>>

\* main.rs:199
GetToken ==
    /\ pc = "get_token"
    /\ \/ \E written \in Tokens :
            /\ token' = get_data_from_context(written)
            /\ trace' = Append(trace, Call("get_output_single", 0, written, "Ok"))
            /\ pc' = "emit_token"
            /\ UNCHANGED panic
       \/ /\ trace' = Append(trace, Call("get_output_single", 0, <<>>, "Err"))
          /\ Abort("get_output_single")
          /\ UNCHANGED token
    /\ UNCHANGED <<args, options, is_compute_single, saved_prompt, answer, input, output,
                   input_tensor, turn, user_texts, model_texts>>

\* A faulty accumulation that puts each new token in front of the others
EmitToken_Prepend ==
    /\ pc = "emit_token"
    /\ trace' = Append(trace, Stdout(token))
    /\ output' = token \o output
    /\ pc' = "compute_single"
    /\ UNCHANGED <<args, options, is_compute_single, saved_prompt, answer, input, token,
                   input_tensor, turn, user_texts, model_texts, panic>>

\* main.rs:200-202
EmitToken ==
    /\ pc = "emit_token"
    /\ trace' = Append(trace, Stdout(token))
    /\ output' = output \o token
    /\ pc' = "compute_single"
    /\ UNCHANGED <<args, options, is_compute_single, saved_prompt, answer, input, token,
                   input_tensor, turn, panic, user_texts, model_texts>>

\* A faulty end of the loop of main.rs:179 that goes on with the next question
\* at once, as a `continue` of the outer loop would
EndAnswer_Continue ==
    /\ pc = "end_answer"
    /\ trace' = Append(trace, Stdout(<<"\n">>))
    /\ pc' = "loop"
    /\ turn' = turn + 1
    /\ UNCHANGED <<args, options, is_compute_single, saved_prompt, answer, input, output,
                   token, input_tensor, panic, user_texts, model_texts>>

\* main.rs:204
EndAnswer ==
    /\ pc = "end_answer"
    /\ trace' = Append(trace, Stdout(<<"\n">>))
    /\ pc' = "append_output"
    /\ UNCHANGED <<args, options, is_compute_single, saved_prompt, answer, input, output,
                   token, input_tensor, turn, panic, user_texts, model_texts>>

\* main.rs:207
Compute ==
    /\ pc = "compute"
    /\ \E res \in {"Ok"} \cup RunErrors :
         /\ trace' = Append(trace, Call("compute", 0, <<>>, res))
         /\ IF res = "Ok"
            THEN pc' = "get_output" /\ UNCHANGED panic
            ELSE Abort("compute")
    /\ UNCHANGED <<args, options, is_compute_single, saved_prompt, answer, input, output,
                   token, input_tensor, turn, user_texts, model_texts>>

\* main.rs:210
GetOutput ==
    /\ pc = "get_output"
    /\ \/ \E written \in Answers :
            /\ output' = get_data_from_context(written)
            /\ trace' = Append(trace, Call("get_output", 0, written, "Ok"))
            /\ pc' = "print_output"
            /\ UNCHANGED panic
       \/ /\ trace' = Append(trace, Call("get_output", 0, <<>>, "Err"))
          /\ Abort("get_output")
          /\ UNCHANGED output
    /\ UNCHANGED <<args, options, is_compute_single, saved_prompt, answer, input, token,
                   input_tensor, turn, user_texts, model_texts>>

\* A faulty print of the answer that does not trim it
PrintOutput_Untrimmed ==
    /\ pc = "print_output"
    /\ LET stream == as_bool(options["stream-stdout"])
       IN  IF stream = "None"
           THEN /\ Abort("stream-stdout")
                /\ UNCHANGED trace
           ELSE /\ trace' = trace \o (IF stream = "false" THEN <<Stdout(output)>> ELSE <<>>)
                                  \o <<Stdout(<<"\n">>)>>
                /\ pc' = "append_output"
                /\ UNCHANGED panic
    /\ UNCHANGED <<args, options, is_compute_single, saved_prompt, answer, input, output,
                   token, input_tensor, turn, user_texts, model_texts>>

\* main.rs:213-216
PrintOutput ==
    /\ pc = "print_output"
    /\ LET stream == as_bool(options["stream-stdout"])
       IN  IF stream = "None"
           THEN /\ Abort("stream-stdout")
                /\ UNCHANGED trace
           ELSE /\ trace' = trace \o (IF stream = "false" THEN <<Stdout(Trim(output))>> ELSE <<>>)
                                  \o <<Stdout(<<"\n">>)>>
                /\ pc' = "append_output"
                /\ UNCHANGED panic
    /\ UNCHANGED <<args, options, is_compute_single, saved_prompt, answer, input, output,
                   token, input_tensor, turn, user_texts, model_texts>>

\* A faulty append that starts the conversation anew after a turn without answer
AppendOutput_ResetWhenFull ==
    /\ pc = "append_output"
    /\ saved_prompt' = IF Trim(output) = <<>> THEN <<>> ELSE append_output(saved_prompt, output)
    /\ model_texts' = Append(model_texts, Trim(output))
    /\ pc' = "output_metadata"
    /\ UNCHANGED <<args, options, is_compute_single, answer, input, output, token,
                   input_tensor, trace, turn, panic, user_texts>>

\* main.rs:219
AppendOutput ==
    /\ pc = "append_output"
    /\ saved_prompt' = append_output(saved_prompt, output)
    /\ model_texts' = Append(model_texts, Trim(output))
    /\ pc' = "output_metadata"
    /\ UNCHANGED <<args, options, is_compute_single, answer, input, output, token,
                   input_tensor, trace, turn, panic, user_texts>>

\* main.rs:222-226
OutputMetadata ==
    /\ pc = "output_metadata"
    /\ \E o \in MetadataOutcomes :
         LET metadata == get_metadata_from_context(o)
             read == Call("get_output", 1, o.text, o.res)
             log == IF LogEnabled
                    THEN <<Stdout(<<"Number of input tokens: ">> \o metadata.input_tokens
                                  \o <<"\n">>),
                           Stdout(<<"Number of output tokens: ">> \o metadata.output_tokens
                                  \o <<"\n">>)>>
                    ELSE <<>>
         IN  IF metadata.ok
             THEN /\ trace' = trace \o <<read>> \o log
                  /\ pc' = "fini_single"
                  /\ UNCHANGED panic
             ELSE /\ trace' = Append(trace, read)
                  /\ Abort(metadata.panic)
    /\ UNCHANGED <<args, options, is_compute_single, saved_prompt, answer, input, output,
                   token, input_tensor, turn, user_texts, model_texts>>

\* A faulty end of the turn that calls fini_single in either mode
FiniSingle_Always ==
    /\ pc = "fini_single"
    /\ \E res \in {"Ok", "Err"} :
         /\ trace' = Append(trace, Call("fini_single", 0, <<>>, res))
         /\ IF res = "Ok"
            THEN pc' = "loop" /\ turn' = turn + 1 /\ UNCHANGED panic
            ELSE Abort("fini_single") /\ UNCHANGED turn
    /\ UNCHANGED <<args, options, is_compute_single, saved_prompt, answer, input, output,
                   token, input_tensor, user_texts, model_texts>>

\* A faulty end of the loop body that never calls fini_single()
FiniSingle_Skipped ==
    /\ pc = "fini_single"
    /\ pc' = "loop"
    /\ turn' = turn + 1
    /\ UNCHANGED <<args, options, is_compute_single, saved_prompt, answer, input, output,
                   token, input_tensor, trace, user_texts, model_texts, panic>>

\* main.rs:229-232: fini_single() in the token-by-token mode, then the loop
\* goes round
FiniSingle ==
    /\ pc = "fini_single"
    /\ IF is_compute_single
       THEN \E res \in {"Ok", "Err"} :
              /\ trace' = Append(trace, Call("fini_single", 0, <<>>, res))
              /\ IF res = "Ok"
                 THEN pc' = "loop" /\ turn' = turn + 1 /\ UNCHANGED panic
                 ELSE Abort("fini_single") /\ UNCHANGED turn
       ELSE /\ pc' = "loop"
            /\ turn' = turn + 1
            /\ UNCHANGED <<trace, panic>>
    /\ UNCHANGED <<args, options, is_compute_single, saved_prompt, answer, input, output,
                   token, input_tensor, user_texts, model_texts>>

Next ==
    \/ Main
    \/ PromptSetInput
    \/ PromptCompute
    \/ PromptGetOutput
    \/ Loop
    \/ ReadInput
    \/ AppendTurn
    \/ SetData
    \/ InputMetadata
    \/ ComputeSingle
    \/ GetToken
    \/ EmitToken
    \/ EndAnswer
    \/ Compute
    \/ GetOutput
    \/ PrintOutput
    \/ AppendOutput
    \/ OutputMetadata
    \/ FiniSingle

Spec == Init /\ [][Next]_vars

-----------------------------------------------------------------------------
(* Reading the trace *)

\* The session is interactive: no prompt argument was given
Interactive == Len(args) < 3

Last(t) == t[Len(t)]

IsPrefix(s, t) == Len(s) <= Len(t) /\ SubSeq(t, 1, Len(s)) = s

IsSuffix(s, t) == Len(s) <= Len(t) /\ SubSeq(t, Len(t) - Len(s) + 1, Len(t)) = s

\* The places of the calls of `op` in the trace
Calls(t, op) == {i \in DOMAIN t : t[i].op = op}

\* The runs that returned an error
FailedRuns(t) == {i \in DOMAIN t : t[i].op \in {"compute", "compute_single"} /\ t[i].res # "Ok"}

\* The compute_single() calls that returned ContextFull, PromptTooLong or another
\* error that is not the end of the sequence
FailedSteps(t) ==
    {i \in Calls(t, "compute_single") : t[i].res \notin {"Ok", "EndOfSequence"}}

\* The texts of the tokens read since the last question, one after the other
RECURSIVE TokenText(_)
TokenText(t) ==
    IF t = <<>> THEN <<>>
    ELSE (IF Head(t).op = "get_output_single" /\ Head(t).res = "Ok"
          THEN Head(t).arg ELSE <<>>) \o TokenText(Tail(t))

\* The prompt that was submitted for this question
Submitted(t) == t[CHOOSE i \in Calls(t, "set_input") : TRUE].arg

\* The number of times `text` was written to stdout since the last question
TimesPrinted(t, text) == Cardinality({i \in Calls(t, "print") : t[i].arg = text})

-----------------------------------------------------------------------------
(* C1 *)

\* C1 (as claimed): in an interactive session no error returned by compute()
\* or compute_single() ends the process: the process is never aborted with a
\* failed run as the last thing it did.
C1_RunFailureNeverAborts ==
    Interactive =>
        ~(pc = "aborted" /\ trace # <<>> /\ Len(trace) \in FailedRuns(trace))

-----------------------------------------------------------------------------
(* C2 *)

\* What holds in every state of a turn of the token-by-token mode in which a
\* compute_single() has failed at place i of the trace
C2_AfterFailure(i) ==
    \* the loop has stopped: no run and no read of a token after the failure
    /\ \A j \in DOMAIN trace :
          j > i => trace[j].op \notin {"compute_single", "get_output_single", "compute"}
    \* the failure is not what ended the process
    /\ pc = "aborted" => panic \in {"get_output", "from_str", "fini_single"}
    \* the transcript holds the user's input of the turn
    /\ IsSuffix(Trim(input) \o <<" ", "[/INST]">>, Submitted(trace))
    /\ IsPrefix(Submitted(trace), saved_prompt)
    \* before main.rs:219 the transcript is the submitted prompt, after it the
    \* submitted prompt and the trimmed text of the tokens read so far
    /\ pc \in {"end_answer", "append_output"} => saved_prompt = Submitted(trace)
    /\ pc \in {"output_metadata", "fini_single", "loop", "aborted"} =>
          saved_prompt = Submitted(trace) \o <<" ">> \o Trim(TokenText(trace)) \o <<" ">>

\* The way from a failed compute_single() to the next read of a line: every
\* step is the next statement of the loop body, and only a failing read of
\* the metadata or a failing fini_single() leaves it
C2_Onward ==
    /\ (FailedSteps(trace) = {} /\ pc = "compute_single" /\ FailedSteps(trace') # {}) =>
          pc' = "end_answer" /\ output' = output /\ saved_prompt' = saved_prompt
    /\ FailedSteps(trace) # {} =>
          /\ pc = "end_answer" => pc' = "append_output"
          /\ pc = "append_output" => pc' = "output_metadata"
          /\ pc = "output_metadata" =>
                pc' = "fini_single" \/ (pc' = "aborted" /\ panic' \in {"get_output", "from_str"})
          /\ pc = "fini_single" =>
                pc' = "loop" \/ (pc' = "aborted" /\ panic' = "fini_single")
          /\ pc = "loop" => pc' = "read_input"

\* C2: in the token-by-token mode, when compute_single() fails with
\* ContextFull, PromptTooLong or another error after k >= 0 tokens, the loop of
\* that turn stops, the transcript (which holds the user's input of the turn)
\* is extended by the trimmed text of the k tokens, and the loop body goes on
\* to the next read of a line.
C2_FailedStepEndsTurnOnly ==
    /\ [](Interactive /\ is_compute_single =>
            \A i \in FailedSteps(trace) : C2_AfterFailure(i))
    /\ [][Interactive /\ is_compute_single => C2_Onward]_vars

\* A turn that ended with PromptTooLong after two tokens whose text has white
\* space to trim, back at the head of the loop with the next question to come
C2_Witness ==
    /\ Interactive /\ is_compute_single
    /\ pc = "loop" /\ turn = 1
    /\ \E i \in FailedSteps(trace) : trace[i].res = "PromptTooLong"
    /\ Steps(trace) = 2
    /\ Trim(TokenText(trace)) # TokenText(trace)
    /\ Trim(TokenText(trace)) # <<>>

-----------------------------------------------------------------------------
(* C3 *)

\* The first place >= p at which text t stands in s, 0 if there is none
FindFrom(s, t, p) ==
    LET places == {i \in p..(Len(s) - Len(t) + 1) : SubSeq(s, i, i + Len(t) - 1) = t}
    IN  IF places = {} THEN 0 ELSE CHOOSE i \in places : \A j \in places : i <= j

\* The texts stand in s one after the other, from place p on, without overlap
RECURSIVE InOrder(_, _, _)
InOrder(texts, s, p) ==
    IF texts = <<>> THEN TRUE
    ELSE LET i == FindFrom(s, Head(texts), p)
         IN  i # 0 /\ InOrder(Tail(texts), s, i + Len(Head(texts)))

\* u1, o1, u2, o2, ...: the texts of the turns in the order of the turns
RECURSIVE Chronological(_, _)
Chronological(us, ms) ==
    IF us = <<>> THEN <<>>
    ELSE <<Head(us)>> \o (IF ms = <<>> THEN <<>> ELSE <<Head(ms)>>)
         \o Chronological(Tail(us), IF ms = <<>> THEN <<>> ELSE Tail(ms))

\* Every turn so far is in the transcript, in the order of the turns
C3_InTurnOrder ==
    /\ Len(model_texts) <= Len(user_texts)
    /\ Len(user_texts) <= Len(model_texts) + 1
    /\ InOrder(Chronological(user_texts, model_texts), saved_prompt, 1)

\* C3: the transcript only grows at its end (every update keeps the former
\* transcript as a prefix, so its length never decreases), and the inputs and
\* outputs of the turns stand in it in the order of the turns, none dropped.
C3_AppendOnly ==
    /\ [][IsPrefix(saved_prompt, saved_prompt') /\ Len(saved_prompt) <= Len(saved_prompt')]_vars
    /\ [](Interactive => C3_InTurnOrder)

\* Two turns with different inputs and different, non-empty outputs are in
\* the transcript
C3_Witness ==
    /\ Interactive /\ turn = 2 /\ pc = "loop"
    /\ user_texts[1] # user_texts[2]
    /\ model_texts[1] # model_texts[2]
    /\ model_texts[1] # <<>> /\ model_texts[2] # <<>>

-----------------------------------------------------------------------------
(* C4 *)

\* The number of places at which text t stands in s
Occurrences(t, s) ==
    Cardinality({i \in 1..(Len(s) - Len(t) + 1) : SubSeq(s, i, i + Len(t) - 1) = t})

\* C4: from the first append_turn on the transcript is never empty, begins
\* with "[INST] " and the system prompt, and holds the system prompt exactly
\* once however many turns were appended.
C4_SystemPromptOnce ==
    Interactive =>
        /\ user_texts # <<>> => saved_prompt # <<>>
        /\ saved_prompt # <<>> =>
              /\ IsPrefix(<<"[INST]", " ">> \o system_prompt \o <<" ">>, saved_prompt)
              /\ Occurrences(system_prompt, saved_prompt) = 1
              /\ Occurrences(<<"[INST]">>, saved_prompt) = Len(user_texts)

\* The second append_turn of a session has been done on a non-empty transcript
C4_Witness ==
    /\ Interactive /\ pc = "set_data"
    /\ Len(user_texts) = 2 /\ Len(model_texts) = 1

-----------------------------------------------------------------------------
(* C5 *)

\* The template, applied to the first n user texts us and the model texts ms
\* there are for them
RECURSIVE C5_Template(_, _, _)
C5_Template(us, ms, n) ==
    IF n = 0 THEN <<>>
    ELSE LET before == C5_Template(us, ms, n - 1)
             asked == IF n = 1
                      THEN <<"[INST]", " ">> \o system_prompt \o <<" ">> \o us[1]
                               \o <<" ", "[/INST]">>
                      ELSE before \o <<" ", "[INST]", " ">> \o us[n] \o <<" ", "[/INST]">>
         IN  IF n <= Len(ms) THEN asked \o <<" ">> \o ms[n] \o <<" ">> ELSE asked

\* The text the backend gave as the answer of this turn, decoded: the tokens
\* one after the other, or the text of get_output
C5_AnswerText ==
    IF is_compute_single
    THEN TokenText(trace)
    ELSE LET reads == {i \in Calls(trace, "get_output") : trace[i].idx = 0 /\ trace[i].res = "Ok"}
         IN  IF reads = {} THEN <<>>
             ELSE get_data_from_context(trace[CHOOSE i \in reads : TRUE].arg)

\* C5: the transcript is the fixed template applied in order to the trimmed
\* inputs and outputs of the turns so far, the input of a turn is the line
\* that was read, trimmed, the output of a turn is the backend's text,
\* trimmed, and the prompt submitted in a turn is the transcript of the turns
\* before it followed by the user block of the turn.
C5_TranscriptIsTemplate ==
    Interactive =>
        /\ saved_prompt = C5_Template(user_texts, model_texts, Len(user_texts))
        /\ pc \in {"set_data", "input_metadata", "compute_single", "get_token", "emit_token",
                   "end_answer", "compute", "get_output", "print_output", "append_output"} =>
              /\ Len(user_texts) = turn + 1 /\ Len(model_texts) = turn
              /\ Last(user_texts) = Trim(answer)
        /\ pc \in {"output_metadata", "fini_single"} =>
              /\ Len(user_texts) = turn + 1 /\ Len(model_texts) = turn + 1
              /\ Last(model_texts) = Trim(C5_AnswerText)
        /\ \A i \in Calls(trace, "set_input") :
              /\ trace[i].arg = C5_Template(user_texts, model_texts, Len(user_texts) - 1)
                                   \o (IF Len(user_texts) = 1
                                       THEN <<"[INST]", " ">> \o system_prompt \o <<" ">>
                                       ELSE <<" ", "[INST]", " ">>)
                                   \o Trim(answer) \o <<" ", "[/INST]">>
              /\ trace[i].res = "Ok" => input_tensor = trace[i].arg

\* The prompt of the second turn has been submitted, after a first turn whose
\* output had white space to trim
C5_Witness ==
    /\ Interactive /\ pc = "input_metadata" /\ turn = 1
    /\ model_texts[1] = <<"answer">>
    /\ Trim(answer) # answer /\ Trim(answer) # <<>>

-----------------------------------------------------------------------------
(* C6 *)

\* The messages of the arms of main.rs:185-196
IsStopMessage(text) ==
    \/ text = <<"[INFO] Context full", "\n">>
    \/ text = <<"[INFO] Prompt too long", "\n">>
    \/ (text # <<>> /\ Head(text) = "[ERROR] ")

\* The place of the "Answer:" line in the trace, 0 before it is written
AnswerLine(t) ==
    LET places == {i \in Calls(t, "print") : t[i].arg = <<"Answer:", "\n">>}
    IN  IF places = {} THEN 0 ELSE CHOOSE i \in places : TRUE

\* Every successful step is followed by the read of its token, the token is
\* written as it was read, and only then comes the next step
C6_StepByStep ==
    \A i \in Calls(trace, "compute_single") :
        /\ i > AnswerLine(trace) /\ AnswerLine(trace) > 0
        /\ (trace[i].res = "Ok" /\ i + 1 <= Len(trace)) =>
              trace[i + 1].op = "get_output_single"
        /\ (trace[i].res = "Ok" /\ i + 2 <= Len(trace)) =>
              /\ trace[i + 1].res = "Ok"
              /\ trace[i + 2] = Stdout(get_data_from_context(trace[i + 1].arg))
        /\ (trace[i].res = "Ok" /\ i + 3 <= Len(trace)) =>
              trace[i + 3].op = "compute_single"
        /\ i > AnswerLine(trace) + 1 =>
              /\ trace[i - 1].op = "print"
              /\ trace[i - 3].op = "compute_single" /\ trace[i - 3].res = "Ok"

\* What holds once compute_single() has returned EndOfSequence at place i
C6_AtEndOfSequence(i) ==
    \* the result is the tokens in the order of their steps
    /\ output = TokenText(trace)
    /\ Cardinality(Calls(trace, "get_output_single")) = Steps(trace)
    \* what was written between "Answer:" and the end is the tokens, untrimmed
    /\ Printed(SubSeq(trace, AnswerLine(trace) + 1, i)) = TokenText(trace)
    \* the loop ended there and no message was written
    /\ \A j \in Calls(trace, "compute_single") : j <= i
    /\ \A j \in Calls(trace, "print") : ~IsStopMessage(trace[j].arg)
    /\ i + 1 <= Len(trace) => trace[i + 1] = Stdout(<<"\n">>)

\* C6: in the token-by-token mode, when the backend gives k tokens and then
\* EndOfSequence, the result of the turn is the k tokens one after the other
\* in their order, each token is written untrimmed right after its own step
\* and before the next compute_single(), and no [INFO] or [ERROR] message is
\* written.
C6_TokensInOrder ==
    (Interactive /\ is_compute_single) =>
        /\ C6_StepByStep
        /\ \A i \in Calls(trace, "compute_single") :
              trace[i].res = "EndOfSequence" => C6_AtEndOfSequence(i)

\* Two different tokens, the first of them white space, then EndOfSequence
C6_Witness ==
    /\ Interactive /\ is_compute_single /\ pc = "append_output"
    /\ \E i \in Calls(trace, "compute_single") : trace[i].res = "EndOfSequence"
    /\ output = <<" ", "lo">>

-----------------------------------------------------------------------------
(* C7 *)

\* The first compute_single() of the turn returned ContextFull
C7_ContextFullAtOnce ==
    /\ Interactive /\ is_compute_single
    /\ Steps(trace) = 0
    /\ \E i \in Calls(trace, "compute_single") : trace[i].res = "ContextFull"

\* C7: in the token-by-token mode, when the first compute_single() of a turn
\* returns ContextFull, the result of the turn is empty, no token is read,
\* "[INFO] Context full" is written exactly once and no other message, and the
\* empty result is appended like any other: the turn is completed and the
\* loop goes on to the next question.
C7_ContextFullFirst ==
    /\ [](C7_ContextFullAtOnce =>
            /\ output = <<>>
            /\ Calls(trace, "get_output_single") = {}
            /\ Cardinality(Calls(trace, "compute_single")) = 1
            /\ TimesPrinted(trace, <<"[INFO] Context full", "\n">>) = 1
            /\ Cardinality({j \in Calls(trace, "print") : IsStopMessage(trace[j].arg)}) = 1
            /\ pc \in {"output_metadata", "fini_single", "loop"} =>
                  /\ Last(model_texts) = <<>>
                  /\ saved_prompt = Submitted(trace) \o <<" ", " ">>
            /\ pc = "loop" => turn = Len(model_texts)
            /\ pc = "aborted" => panic \in {"get_output", "from_str", "fini_single"})
    /\ [][(C7_ContextFullAtOnce /\ pc = "fini_single" /\ pc' = "loop") =>
             (turn' = turn + 1 /\ saved_prompt' = saved_prompt)]_vars
    /\ [][(C7_ContextFullAtOnce /\ pc = "loop") => pc' = "read_input"]_vars

\* A turn whose first step gave ContextFull is completed and the next
\* question can be asked
C7_Witness ==
    /\ C7_ContextFullAtOnce
    /\ pc = "loop" /\ turn = 1

-----------------------------------------------------------------------------
(* C8 *)

\* The loop of main.rs:179-203 has ended in this turn: a compute_single() has
\* returned something other than Ok
C8_LoopEnded ==
    /\ Interactive /\ is_compute_single
    /\ \E i \in Calls(trace, "compute_single") : trace[i].res # "Ok"

-----------------------------------------------------------------------------
(* C9 *)

\* compute() has returned Ok in this turn of the whole-answer mode and
\* stream-stdout is false
C9_BatchSucceeded ==
    /\ Interactive /\ ~is_compute_single
    /\ options["stream-stdout"] = "false"
    /\ \E i \in Calls(trace, "compute") : trace[i].res = "Ok"

\* The place of the compute() call of this turn
C9_Run == CHOOSE i \in Calls(trace, "compute") : TRUE

\* C9: in the whole-answer mode with stream-stdout false, nothing is written
\* between "Answer:" and the return of compute(), and once compute() and
\* get_output() have succeeded the text of the answer, trimmed, is written
\* exactly once in the turn, right after the read, followed by the end of
\* the line.
C9_TrimmedAnswerOnce ==
    /\ (Interactive /\ ~is_compute_single) =>
          \A i \in Calls(trace, "compute") :
              /\ Cardinality(Calls(trace, "compute")) = 1
              /\ trace[i - 1] = Stdout(<<"Answer:", "\n">>)
    /\ C9_BatchSucceeded =>
          /\ pc \in {"get_output", "print_output"} =>
                \A j \in Calls(trace, "print") : j < C9_Run
          /\ pc \in {"append_output", "output_metadata", "fini_single", "loop"} =>
                /\ trace[C9_Run + 1].op = "get_output" /\ trace[C9_Run + 1].res = "Ok"
                /\ trace[C9_Run + 2] =
                      Stdout(Trim(get_data_from_context(trace[C9_Run + 1].arg)))
                /\ trace[C9_Run + 3] = Stdout(<<"\n">>)
                /\ TimesPrinted(trace, Trim(output)) = 1
                /\ {j \in Calls(trace, "print") :
                       j > C9_Run /\ IsSuffix(Trim(output), trace[j].arg)} = {C9_Run + 2}

\* The answer "  answer  " has been read and written as "answer"
C9_Witness ==
    /\ C9_BatchSucceeded
    /\ pc = "append_output"
    /\ output = <<" ", " ", "answer", " ", " ">>
    /\ TimesPrinted(trace, <<"answer">>) = 1

-----------------------------------------------------------------------------
(* C10 *)

\* A prompt argument was given
Scripted == Len(args) >= 3

\* The runs of the backend, of either kind
Runs(t) == Calls(t, "compute") \cup Calls(t, "compute_single")

-----------------------------------------------------------------------------
(* C11 *)

\* The places of the backend calls that the step adds to the trace
NewCalls ==
    IF pc = "loop" THEN {}
    ELSE {i \in (Len(trace) + 1)..Len(trace') : trace'[i].op # "print"}

\* C11: turns follow each other strictly: a pass of the loop is counted only
\* after its output was appended, and every backend call (set_input, the
\* reads of the metadata, compute(), compute_single(), the reads of the
\* output, fini_single()) is made when the outputs of all turns before the
\* current one are in the transcript.
C11_TurnsSequential ==
    /\ [](Interactive => (turn <= Len(model_texts) /\ Len(model_texts) <= turn + 1))
    /\ [][(Interactive /\ NewCalls # {}) =>
             /\ Len(user_texts) = turn + 1
             /\ Len(model_texts) >= turn
             /\ IsPrefix(C5_Template(user_texts, model_texts, turn), saved_prompt)
             /\ turn > 0 =>
                   IsSuffix(<<" ">> \o model_texts[turn] \o <<" ">>,
                            C5_Template(user_texts, model_texts, turn))]_vars
    /\ [][(Interactive /\ turn' # turn) =>
             (turn' = turn + 1 /\ Len(model_texts) = turn + 1)]_vars

\* The first compute_single() of the second turn has been called, after a
\* first turn that gave a non-empty output
C11_Witness ==
    /\ Interactive /\ is_compute_single
    /\ turn = 1 /\ pc = "get_token"
    /\ Cardinality(Calls(trace, "compute_single")) = 1
    /\ model_texts = << <<"lo">> >>


-----------------------------------------------------------------------------
(* C12 *)

\* C12 (as claimed): in an interactive session the program can take a
\* further step in every state it reaches, whatever the backend returns and
\* whatever the options are.  (The model stops counting passes of the loop at
\* MaxTurns; that stop is not one of the program.  A failing read of standard
\* input is counted as an end from outside the program.)
C12_NoTerminalState ==
    Interactive =>
        \/ pc = "loop" /\ turn = MaxTurns
        \/ pc = "aborted" /\ panic = "Failed to read line"
        \/ ENABLED Next

-----------------------------------------------------------------------------
(* C13 *)

\* C13 (as claimed): the user text that append_turn puts into the transcript
\* is never empty, because read_input reads again on every line that is empty
\* or white space only.
C13_UserTextNeverEmpty ==
    Interactive =>
        /\ \A i \in DOMAIN user_texts : user_texts[i] # <<>>
        /\ pc \notin {"read_input", "loop", "main"} => Trim(input) # <<>>

-----------------------------------------------------------------------------
(* C14 *)

\* The places of the runs that the step adds to the trace
NewRuns == {i \in NewCalls : trace'[i].op \in {"compute", "compute_single"}}

\* C14: no run is repeated after an error: once compute_single() has returned
\* EndOfSequence, ContextFull, PromptTooLong or another error, or compute()
\* an error, no compute_single() and no compute() is called until the loop
\* has come round, a new line has been read and a new prompt has been
\* submitted.
C14_NoRetry ==
    /\ [](Interactive =>
            \A i \in FailedRuns(trace) :
                \A j \in Runs(trace) : j <= i)
    /\ [][(Interactive /\ NewRuns # {}) =>
             /\ FailedRuns(trace) = {}
             /\ Cardinality(Calls(trace, "set_input")) = 1
             /\ Submitted(trace) = saved_prompt
             /\ input_tensor = saved_prompt
             /\ Last(user_texts) = Trim(answer)
             /\ Len(user_texts) = turn + 1]_vars
    /\ [][(Interactive /\ FailedRuns(trace) # {}) =>
             (pc' \in {"end_answer", "append_output", "output_metadata", "fini_single",
                       "loop", "aborted"}
              \/ (pc = "loop" /\ pc' = "read_input" /\ FailedRuns(trace') = {}))]_vars

\* In the second turn a step is run after the first turn was ended by
\* ContextFull: the error of the first turn was not followed by a run until
\* the new prompt was submitted
C14_Witness ==
    /\ Interactive /\ is_compute_single
    /\ turn = 1 /\ pc = "emit_token"
    /\ model_texts = << <<>> >>
    /\ Len(input_tensor) > 7


-----------------------------------------------------------------------------
\* C15

\* The decode cap in bytes
C15_Cap == 24576

\* The reads of slot 0 a step adds to the trace that returned a size
NewReads ==
    {i \in NewCalls : /\ trace'[i].op \in {"get_output", "get_output_single"}
                      /\ trace'[i].idx = 0
                      /\ trace'[i].res = "Ok"}

\* C15 as stated: the text a read of the output yields is never more than
\* 24576 bytes.
C15_NeverMoreThanCapBytes ==
    /\ Size(token) <= C15_Cap
    /\ ~is_compute_single => Size(output) <= C15_Cap

\* C15, amended: for a size s the backend reports, a read of the output decodes
\* the first min(s, 24576) bytes and no other, each valid byte to itself and
\* each invalid byte to U+FFFD (so the text is at most three times the bytes
\* decoded); a size above 24576 is no error and the program goes on to use the
\* text as with any other read.
C15_DecodesUpToCap ==
    [][\A i \in NewReads :
          LET written == trace'[i].arg
              text    == IF trace'[i].op = "get_output_single" THEN token' ELSE output'
              decoded == Min(Size(written), C15_Cap)
          IN  /\ Len(text) <= Len(written)
              /\ Size(SubSeq(written, 1, Len(text))) = decoded
              /\ \A k \in DOMAIN text :
                    text[k] = IF written[k] = InvalidByte THEN ReplacementChar ELSE written[k]
              /\ Size(text) <= len(ReplacementChar) * decoded
              /\ panic' = panic
              /\ pc' = CASE pc = "get_output" -> "print_output"
                         [] pc = "get_token" -> "emit_token"
                         [] OTHER -> "exited"]_vars

\* A whole answer of more than 24576 bytes was read, cut at 24576, and the turn
\* went on to append it to the conversation.
C15_Witness ==
    /\ Interactive /\ ~is_compute_single
    /\ pc = "output_metadata"
    /\ \E i \in Calls(trace, "get_output") :
          /\ trace[i].res = "Ok"
          /\ Size(trace[i].arg) > C15_Cap
          /\ output = from_utf8_lossy(SubSeq(trace[i].arg, 1, Len(output)))
          /\ Size(SubSeq(trace[i].arg, 1, Len(output))) = C15_Cap
    /\ Size(output) > C15_Cap
    /\ Len(model_texts) = turn + 1


-----------------------------------------------------------------------------
\* C16

\* The reads of the metadata, slot 1
MetadataReads(t) == {i \in Calls(t, "get_output") : t[i].idx = 1}

\* The calls of the generation: the runs and the reads of slot 0
Generation(t) ==
    Runs(t) \cup Calls(t, "get_output_single") \cup {i \in Calls(t, "get_output") : t[i].idx = 0}

\* The calls made since the last question
BackendCalls(t) == {i \in DOMAIN t : t[i].op # "print"}

\* C16: the steps of a turn come in the order read input, append_turn,
\* set_input, metadata, generation, append_output, metadata.  The user block is
\* appended from the line just read, before any call of the turn; set_input is
\* the first call and gets the whole transcript; a run is made only after
\* exactly one read of the metadata and before the output is appended; the
\* output is appended after the generation and before the second read of the
\* metadata; and when a turn is complete its calls are set_input, the metadata,
\* the generation, the metadata, in that order.
C16_StepsInOrder ==
    /\ [][(Interactive /\ user_texts' # user_texts) =>
             /\ IsAnswer(answer) /\ input = answer
             /\ user_texts' = Append(user_texts, Trim(answer))
             /\ BackendCalls(trace) = {} /\ trace' = trace
             /\ Len(user_texts) = turn]_vars
    /\ [][(Interactive /\ \E i \in NewCalls : trace'[i].op = "set_input") =>
             /\ BackendCalls(trace) = {}
             /\ Len(user_texts) = turn + 1 /\ Len(model_texts) = turn
             /\ trace'[Len(trace')] = Call("set_input", 0, saved_prompt, trace'[Len(trace')].res)
             /\ saved_prompt = C5_Template(user_texts, model_texts, turn + 1)]_vars
    /\ [][(Interactive /\ \E i \in NewCalls : i \in MetadataReads(trace')) =>
             IF MetadataReads(trace) = {}
             THEN /\ BackendCalls(trace) = Calls(trace, "set_input")
                  /\ \E i \in Calls(trace, "set_input") : trace[i].res = "Ok"
                  /\ Len(model_texts) = turn
             ELSE /\ Cardinality(MetadataReads(trace)) = 1
                  /\ Generation(trace) # {}
                  /\ Len(model_texts) = turn + 1]_vars
    /\ [][(Interactive /\ \E i \in NewCalls : i \in Generation(trace')) =>
             /\ Cardinality(MetadataReads(trace)) = 1
             /\ Len(model_texts) = turn]_vars
    /\ [][(Interactive /\ model_texts' # model_texts) =>
             /\ Runs(trace) # {}
             /\ Cardinality(MetadataReads(trace)) = 1
             /\ trace' = trace
             /\ Len(model_texts) = turn
             /\ model_texts' = Append(model_texts, Trim(output))]_vars
    /\ []((Interactive /\ pc = "loop" /\ turn > 0) =>
             \E s \in Calls(trace, "set_input") : \E m1, m2 \in MetadataReads(trace) :
                 /\ Calls(trace, "set_input") = {s}
                 /\ MetadataReads(trace) = {m1, m2}
                 /\ s < m1 /\ m1 < m2
                 /\ Generation(trace) # {}
                 /\ \A g \in Generation(trace) : m1 < g /\ g < m2
                 /\ Len(user_texts) = turn /\ Len(model_texts) = turn
                 /\ saved_prompt = trace[s].arg \o <<" ">> \o model_texts[turn] \o <<" ">>)

\* A second turn is complete, in the incremental mode, with a token generated
C16_Witness ==
    /\ Interactive /\ is_compute_single
    /\ pc = "loop" /\ turn = 2
    /\ Cardinality(MetadataReads(trace)) = 2
    /\ Calls(trace, "get_output_single") # {}


-----------------------------------------------------------------------------
\* C17

\* C17: the mode never changes, and in an interactive session the calls of a
\* turn are those of one mode only: with is_compute_single there is no
\* compute() and no get_output() of slot 0, without it there is no
\* compute_single(), no get_output_single() and no fini_single(); a read of
\* slot 0 is a get_output_single() exactly when is_compute_single holds, and
\* a complete turn has made a run of its mode.
C17_ModeFixed ==
    /\ [][is_compute_single' = is_compute_single]_vars
    /\ [](Interactive =>
            /\ IF is_compute_single
               THEN /\ Calls(trace, "compute") = {}
                    /\ \A i \in Calls(trace, "get_output") : trace[i].idx = 1
               ELSE /\ Calls(trace, "compute_single") = {}
                    /\ Calls(trace, "get_output_single") = {}
                    /\ Calls(trace, "fini_single") = {}
            /\ \A i \in DOMAIN trace :
                  (trace[i].op \in {"get_output", "get_output_single"} /\ trace[i].idx = 0) =>
                      (trace[i].op = "get_output_single" <=> is_compute_single)
            /\ (pc = "loop" /\ turn > 0) =>
                  Calls(trace, IF is_compute_single THEN "compute_single" ELSE "compute") # {})

\* A second turn is complete in the whole-answer mode
C17_Witness ==
    /\ Interactive /\ ~is_compute_single
    /\ pc = "loop" /\ turn = 2
    /\ \E i \in Calls(trace, "compute") : trace[i].res = "Ok"
    /\ \E i \in Calls(trace, "get_output") : trace[i].idx = 0


-----------------------------------------------------------------------------
\* C18

\* An interactive session in the whole-answer mode without a stream-stdout
\* option
C18_Unset ==
    /\ Interactive /\ ~is_compute_single
    /\ options["stream-stdout"] \notin {"true", "false"}

\* compute() and the get_output() of slot 0 after it have returned Ok
C18_AnswerRead ==
    \E i \in Calls(trace, "compute") :
        /\ trace[i].res = "Ok"
        /\ i + 1 = Len(trace)
        /\ trace[i + 1] = Call("get_output", 0, trace[i + 1].arg, "Ok")

\* C18: in the whole-answer mode without a stream-stdout option no turn is ever
\* complete and nothing is ever appended as an output: once compute() and
\* get_output() have returned Ok in the first turn the only step is the
\* failing unwrap() of main.rs:213, which leaves the transcript as it was;
\* a turn of the whole-answer mode is complete only with stream-stdout true or
\* false.
C18_BatchNeedsStreamStdout ==
    /\ [](C18_Unset =>
            /\ turn = 0 /\ model_texts = <<>>
            /\ pc \notin {"append_output", "output_metadata", "fini_single"}
            /\ pc = "print_output" => C18_AnswerRead
            /\ (pc = "aborted" /\ panic = "stream-stdout") =>
                  /\ C18_AnswerRead
                  /\ saved_prompt = Submitted(trace))
    /\ [][(C18_Unset /\ pc = "print_output") =>
             /\ pc' = "aborted" /\ panic' = "stream-stdout"
             /\ trace' = trace /\ saved_prompt' = saved_prompt]_vars
    /\ []((Interactive /\ ~is_compute_single /\ (turn > 0 \/ model_texts # <<>>)) =>
             options["stream-stdout"] \in {"true", "false"})

\* The first turn was aborted by the unwrap() after the answer had been read
C18_Witness ==
    /\ C18_Unset
    /\ pc = "aborted" /\ panic = "stream-stdout"
    /\ C18_AnswerRead


-----------------------------------------------------------------------------
\* C19

\* The errors of main.rs:185-192 by which the backend refuses a prompt
Rejections == {"ContextFull", "PromptTooLong"}

\* The length in bytes above which the backend refuses a prompt: that of the
\* first prompt of a conversation for an empty user text, so that the first
\* prompt is refused for any other user text
PromptLimit == Size(append_turn(<<>>, <<>>))

\* A backend that refuses exactly the prompts above PromptLimit: a run returns
\* ContextFull or PromptTooLong if and only if the prompt set is longer
BackendWithLimit ==
    \A i \in NewRuns : trace'[i].res \in Rejections <=> Size(input_tensor) > PromptLimit

\* The steps of the program, the runs with that backend
NextLimit ==
    \/ Main
    \/ PromptSetInput
    \/ PromptCompute /\ BackendWithLimit
    \/ PromptGetOutput
    \/ Loop
    \/ ReadInput
    \/ AppendTurn
    \/ SetData
    \/ InputMetadata
    \/ ComputeSingle /\ BackendWithLimit
    \/ GetToken
    \/ EmitToken
    \/ EndAnswer
    \/ Compute /\ BackendWithLimit
    \/ GetOutput
    \/ PrintOutput
    \/ AppendOutput
    \/ OutputMetadata
    \/ FiniSingle

\* The program with a backend that has a fixed limit for the prompt
SpecLimit == Init /\ [][NextLimit]_vars

\* A run of this turn was refused
C19_Rejected == \E i \in Runs(trace) : trace[i].res \in Rejections

\* No run in this turn yet, or a single one that was refused
C19_EndsTheSame ==
    \/ Runs(trace) = {}
    \/ /\ Cardinality(Runs(trace)) = 1
       /\ C19_Rejected
       /\ Calls(trace, "get_output_single") = {}

-----------------------------------------------------------------------------
\* C20

\* A read of the metadata that failed: get_output(1) returned an error, or the
\* text it gave is no JSON
C20_Failed(e) == e.res # "Ok" \/ e.arg # MetadataJson

\* The lines with the number of input tokens written since the last question
C20_Logged ==
    {i \in Calls(trace, "print") :
        trace[i].arg # <<>> /\ Head(trace[i].arg) = "Number of input tokens: "}

\* C20: the metadata is read in every turn at both places whatever enable-log
\* is, and only the lines written depend on enable-log; a read that fails at
\* either place ends the process there, with the conversation and the count of
\* turns as they were; and after a failure of the second read fini_single()
\* has not been called in that turn.
C20_MetadataFailureAborts ==
    /\ [][(Interactive /\ \E i \in NewCalls : i \in MetadataReads(trace')) =>
             LET e == trace'[Len(trace')]
             IN  IF \E i \in NewCalls : i \in MetadataReads(trace') /\ C20_Failed(trace'[i])
                 THEN /\ trace' = Append(trace, e)
                      /\ pc' = "aborted"
                      /\ panic' = (IF e.res # "Ok" THEN "get_output" ELSE "from_str")
                      /\ turn' = turn /\ saved_prompt' = saved_prompt
                      /\ model_texts' = model_texts
                 ELSE pc' # "aborted" /\ panic' = panic]_vars
    /\ [](Interactive =>
            /\ pc \in {"compute_single", "get_token", "emit_token", "end_answer", "compute",
                       "get_output", "print_output", "append_output", "output_metadata"} =>
                  /\ Cardinality(MetadataReads(trace)) = 1
                  /\ Cardinality(C20_Logged) = (IF LogEnabled THEN 1 ELSE 0)
            /\ (pc = "fini_single" \/ (pc = "loop" /\ turn > 0)) =>
                  /\ Cardinality(MetadataReads(trace)) = 2
                  /\ Cardinality(C20_Logged) = (IF LogEnabled THEN 2 ELSE 0)
            /\ \A i \in MetadataReads(trace) : C20_Failed(trace[i]) =>
                  /\ i = Len(trace)
                  /\ pc = "aborted"
                  /\ Calls(trace, "fini_single") = {}
                  /\ Len(model_texts) = turn + (IF Cardinality(MetadataReads(trace)) = 2 THEN 1 ELSE 0))

\* Without enable-log, in the incremental mode, the second read of the metadata
\* of a turn has failed after the output was appended
C20_Witness ==
    /\ Interactive /\ is_compute_single /\ ~LogEnabled
    /\ pc = "aborted"
    /\ Cardinality(MetadataReads(trace)) = 2
    /\ C20_Failed(Last(trace)) /\ Len(trace) \in MetadataReads(trace)
    /\ Len(model_texts) = turn + 1
    /\ Calls(trace, "fini_single") = {}

====
